---- MODULE Spec2Model ----
(***************************************************************************)
(* Order service (src/orders/order.service.js): order creation against     *)
(* inventory, order status transitions and the activity log.               *)
(*                                                                         *)
(* Every `await` of the source is one atomic step of the invocation that   *)
(* executes it: a read together with the checks made on its result, a      *)
(* save together with the assignments that precede it.  An invocation is   *)
(* a process of Procs; its local variables (the model instances it         *)
(* loaded) live in proc[p].  A model instance is a snapshot of the row     *)
(* taken by the read; instance.save() writes the attributes whose value    *)
(* differs from the loaded one (Sequelize change tracking) and nothing     *)
(* else.  A new Order row gets the model's default orderStatus, pending.   *)
(***************************************************************************)
EXTENDS Integers, Sequences, FiniteSets, TLC

\* ------------------------------------------------------------------ bounds
MaxQty == 2        \* largest initial Inventory.quantity
MaxCalls == 3      \* invocations started in one behaviour
MaxCreates == 2    \* createOrder invocations started in one behaviour of SpecCreate

Procs == {1, 2}                \* concurrent invocations in flight
Roles == {"User", "Admin"}      \* role argument of getAllOrders
AccountIds == {1}              \* rows of db.Account
ProductIds == {1}              \* rows of db.Product
RequestAccountIds == AccountIds \cup {9}   \* 9: an id with no Account row
RequestProductIds == ProductIds \cup {9}   \* 9: an id with no Product row

\* ------------------------------------------------------------------- state
VARIABLES
    products,     \* db.Product: id -> [productStatus, isAvailable, price]
    inventory,    \* db.Inventory: productId -> quantity (a missing row is not in the domain)
    orders,       \* db.Order: sequence of rows, the id is the index
    activities,   \* the activity log, in order of recording
    proc,         \* per invocation in flight: operation, position, arguments, locals
    calls,        \* invocations started so far
    last,         \* the most recently ended invocation: operation and outcome
    pre           \* the stores as they were when the behaviour, or the latest
                  \* invocation run in isolation, started, and that invocation

vars == <<products, inventory, orders, activities, proc, calls, last, pre>>

Statuses == {"pending", "processing", "shipped", "delivered", "cancelled"}

Idle == [op |-> "none", pc |-> "idle"]

\* A thrown string / a returned value, as the caller of the operation sees it.
Thrown(msg) == [kind |-> "thrown", error |-> msg]
Returned(v) == [kind |-> "returned", value |-> v]

\* The invocation of op by p ends with outcome r.
End(p, op, r) ==
    /\ proc' = [proc EXCEPT ![p] = Idle]
    /\ last' = [op |-> op, result |-> r]

Finish(p, r) == End(p, proc[p].op, r)

Free(p) == proc[p].pc = "idle"

\* p takes a new invocation: it is the first free process (free processes are
\* interchangeable) and the budget of invocations allows one more.
CanCall(p) ==
    /\ Free(p)
    /\ \A q \in Procs : Free(q) => ~(q < p)
    /\ calls < MaxCalls

\* instance.save() on an existing row: the attributes of the instance that differ
\* from the loaded values are written, the others are left as the row has them.
SaveChanged(row, loaded, inst) ==
    [f \in DOMAIN row |-> IF inst[f] # loaded[f] THEN inst[f] ELSE row[f]]

\* ------------------------------------------------------------ createOrder
\* params.quantity || 1
RequestedQuantity(params) ==
    IF "quantity" \in DOMAIN params /\ params.quantity # 0
    THEN params.quantity ELSE 1

\* createOrder's inputs: quantity absent, zero, negative, within and above stock
CreateParams ==
    [AccountId : RequestAccountIds, productId : RequestProductIds]
    \cup [AccountId : RequestAccountIds, productId : RequestProductIds,
          quantity : (-1) .. (MaxQty + 1)]

\* CreateOrder with the account check of line 51 left out
CreateOrderNoAccountCheck(p, params) ==
    /\ CanCall(p)
    /\ calls' = calls + 1
    /\ proc' = [proc EXCEPT ![p] =
            [op |-> "createOrder", pc |-> "findProduct", args |-> params,
             account |-> params.AccountId]]
    /\ UNCHANGED <<products, inventory, orders, activities, last>>

\* line 50-51: the call and its first await, db.Account.findByPk
CreateOrder(p, params) ==
    /\ CanCall(p)
    /\ calls' = calls + 1
    /\ IF params.AccountId \in AccountIds
       THEN /\ proc' = [proc EXCEPT ![p] =
                  [op |-> "createOrder", pc |-> "findProduct", args |-> params,
                   account |-> params.AccountId]]
            /\ UNCHANGED last
       ELSE End(p, "createOrder", Thrown("Account not found"))
    /\ UNCHANGED <<products, inventory, orders, activities>>

\* CreateOrderFindProduct that also refuses a product whose isAvailable is false
CreateOrderFindProductChecksAvailable(p) ==
    /\ proc[p].op = "createOrder" /\ proc[p].pc = "findProduct"
    /\ LET pid == proc[p].args.productId IN
       IF pid \notin DOMAIN products
       THEN Finish(p, Thrown("Product not found"))
       ELSE IF products[pid].productStatus # "active" \/ ~products[pid].isAvailable
       THEN Finish(p, Thrown("Product is not available"))
       ELSE /\ proc' = [proc EXCEPT ![p] =
                  [op |-> "createOrder", pc |-> "findInventory", args |-> proc[p].args,
                   account |-> proc[p].account,
                   product |-> [id |-> pid, price |-> products[pid].price]]]
            /\ UNCHANGED last
    /\ UNCHANGED <<products, inventory, orders, activities, calls>>

\* CreateOrderFindProduct with the productStatus check of line 56 left out
CreateOrderFindProductNoStatusCheck(p) ==
    /\ proc[p].op = "createOrder" /\ proc[p].pc = "findProduct"
    /\ LET pid == proc[p].args.productId IN
       IF pid \notin DOMAIN products
       THEN Finish(p, Thrown("Product not found"))
       ELSE /\ proc' = [proc EXCEPT ![p] =
                  [op |-> "createOrder", pc |-> "findInventory", args |-> proc[p].args,
                   account |-> proc[p].account,
                   product |-> [id |-> pid, price |-> products[pid].price]]]
            /\ UNCHANGED last
    /\ UNCHANGED <<products, inventory, orders, activities, calls>>

\* line 54-56: db.Product.findByPk, then the two product checks
CreateOrderFindProduct(p) ==
    /\ proc[p].op = "createOrder" /\ proc[p].pc = "findProduct"
    /\ LET pid == proc[p].args.productId IN
       IF pid \notin DOMAIN products
       THEN Finish(p, Thrown("Product not found"))
       ELSE IF products[pid].productStatus # "active"
       THEN Finish(p, Thrown("Product is not available"))
       ELSE /\ proc' = [proc EXCEPT ![p] =
                  [op |-> "createOrder", pc |-> "findInventory", args |-> proc[p].args,
                   account |-> proc[p].account,
                   product |-> [id |-> pid, price |-> products[pid].price]]]
            /\ UNCHANGED last
    /\ UNCHANGED <<products, inventory, orders, activities, calls>>

\* CreateOrderFindInventory whose error reports the requested quantity, not the stock
CreateOrderFindInventoryReportsRequested(p) ==
    /\ proc[p].op = "createOrder" /\ proc[p].pc = "findInventory"
    /\ LET pid == proc[p].product.id
           k == RequestedQuantity(proc[p].args) IN
       IF pid \notin DOMAIN inventory
       THEN Finish(p, Thrown("Inventory not found for this product"))
       ELSE IF k > inventory[pid]
       THEN Finish(p, [kind |-> "thrown", error |-> "Insufficient stock",
                       available |-> k])
       ELSE /\ proc' = [proc EXCEPT ![p] =
                  [op |-> "createOrder", pc |-> "saveOrder",
                   account |-> proc[p].account, product |-> proc[p].product,
                   inventory |-> [productId |-> pid, quantity |-> inventory[pid]],
                   requestedQuantity |-> k]]
            /\ UNCHANGED last
    /\ UNCHANGED <<products, inventory, orders, activities, calls>>

\* CreateOrderFindInventory without the stock check of line 64-66
CreateOrderFindInventoryNoStockCheck(p) ==
    /\ proc[p].op = "createOrder" /\ proc[p].pc = "findInventory"
    /\ LET pid == proc[p].product.id
           k == RequestedQuantity(proc[p].args) IN
       IF pid \notin DOMAIN inventory
       THEN Finish(p, Thrown("Inventory not found for this product"))
       ELSE /\ proc' = [proc EXCEPT ![p] =
                  [op |-> "createOrder", pc |-> "saveOrder",
                   account |-> proc[p].account, product |-> proc[p].product,
                   inventory |-> [productId |-> pid, quantity |-> inventory[pid]],
                   requestedQuantity |-> k]]
            /\ UNCHANGED last
    /\ UNCHANGED <<products, inventory, orders, activities, calls>>

\* line 59-78: db.Inventory.findOne, the stock check, and the new (unsaved) order
CreateOrderFindInventory(p) ==
    /\ proc[p].op = "createOrder" /\ proc[p].pc = "findInventory"
    /\ LET pid == proc[p].product.id
           k == RequestedQuantity(proc[p].args) IN
       IF pid \notin DOMAIN inventory
       THEN Finish(p, Thrown("Inventory not found for this product"))
       ELSE IF k > inventory[pid]
       THEN Finish(p, [kind |-> "thrown", error |-> "Insufficient stock",
                       available |-> inventory[pid]])
       ELSE /\ proc' = [proc EXCEPT ![p] =
                  [op |-> "createOrder", pc |-> "saveOrder",
                   account |-> proc[p].account, product |-> proc[p].product,
                   inventory |-> [productId |-> pid, quantity |-> inventory[pid]],
                   requestedQuantity |-> k]]
            /\ UNCHANGED last
    /\ UNCHANGED <<products, inventory, orders, activities, calls>>

\* line 72-81: order.save() inserts the row; the id is the next free one
CreateOrderSave(p) ==
    /\ proc[p].op = "createOrder" /\ proc[p].pc = "saveOrder"
    /\ orders' = Append(orders,
            [AccountId |-> proc[p].account,
             productId |-> proc[p].product.id,
             quantity |-> proc[p].requestedQuantity,
             totalAmount |-> proc[p].product.price * proc[p].requestedQuantity,
             orderStatus |-> "pending",
             shippingAddress |-> "a"])
    /\ proc' = [proc EXCEPT ![p] =
            [op |-> "createOrder", pc |-> "logCreated",
             account |-> proc[p].account, product |-> proc[p].product,
             inventory |-> proc[p].inventory,
             requestedQuantity |-> proc[p].requestedQuantity,
             orderId |-> Len(orders) + 1]]
    /\ UNCHANGED <<products, inventory, activities, calls, last>>

\* line 83-90: logOrderActivity(account.id, order.id, 'created', ...)
CreateOrderLog(p) ==
    /\ proc[p].op = "createOrder" /\ proc[p].pc = "logCreated"
    /\ activities' = Append(activities,
            [accountId |-> proc[p].account, orderId |-> proc[p].orderId,
             action |-> "created",
             description |-> [units |-> proc[p].requestedQuantity,
                              product |-> proc[p].product.id]])
    /\ proc' = [proc EXCEPT ![p].pc = "saveInventory"]
    /\ UNCHANGED <<products, inventory, orders, calls, last>>

\* CreateOrderSaveInventory that takes one unit whatever the requested quantity
CreateOrderSaveInventoryByOne(p) ==
    /\ proc[p].op = "createOrder" /\ proc[p].pc = "saveInventory"
    /\ inventory' = [inventory EXCEPT ![proc[p].inventory.productId] =
            proc[p].inventory.quantity - 1]
    /\ proc' = [proc EXCEPT ![p].pc = "fetchCreated"]
    /\ UNCHANGED <<products, orders, activities, calls, last>>

\* line 92-93: inventory.quantity -= requestedQuantity on the loaded instance,
\* then inventory.save() writes the instance's value
CreateOrderSaveInventory(p) ==
    /\ proc[p].op = "createOrder" /\ proc[p].pc = "saveInventory"
    /\ inventory' = [inventory EXCEPT ![proc[p].inventory.productId] =
            proc[p].inventory.quantity - proc[p].requestedQuantity]
    /\ proc' = [proc EXCEPT ![p].pc = "fetchCreated"]
    /\ UNCHANGED <<products, orders, activities, calls, last>>

\* line 96-103: db.Order.findByPk(order.id) and the return of the created order
CreateOrderReturn(p) ==
    /\ proc[p].op = "createOrder" /\ proc[p].pc = "fetchCreated"
    /\ Finish(p, Returned(proc[p].orderId))
    /\ UNCHANGED <<products, inventory, orders, activities, calls>>

\* An awaited store call of createOrder rejects (line 54, 59, 81, 83, 93 or 96):
\* the rejection propagates out of createOrder, nothing is undone.
CreateOrderStoreFailure(p) ==
    /\ proc[p].op = "createOrder"
    /\ proc[p].pc \in {"findProduct", "findInventory", "saveOrder", "logCreated",
                       "saveInventory", "fetchCreated"}
    /\ End(p, "createOrder",
           [kind |-> "thrown", error |-> "store failure", at |-> proc[p].pc])
    /\ UNCHANGED <<products, inventory, orders, activities, calls>>

CreateOrderStep(p) ==
    \/ CreateOrderFindProduct(p)
    \/ CreateOrderFindInventory(p)
    \/ CreateOrderSave(p)
    \/ CreateOrderLog(p)
    \/ CreateOrderSaveInventory(p)
    \/ CreateOrderReturn(p)

\* ------------------------------------------------- operations on one order
\* ids an operation may name: every stored order, and one id with no row
OrderIds == 1 .. (Len(orders) + 1)


\* the caller of an operation on an order: the order id and the acting account
OrderArgs == [id : OrderIds, AccountId : AccountIds]

\* a function that returns nothing
Void == [kind |-> "returned"]

\* line 43-45, getOrderById: db.Order.findByPk(id), absent when there is no row
getOrderById(id) ==
    IF id \in DOMAIN orders THEN {orders[id]} ELSE {}

\* p loaded the order and goes on to save it
Loaded(p, op, args) ==
    /\ proc' = [proc EXCEPT ![p] =
            [op |-> op, pc |-> "saveOrder", args |-> args, order |-> orders[args.id]]]
    /\ UNCHANGED last

\* order.save() of the loaded order with orderStatus set to status
SaveStatus(p, status) ==
    orders' = [orders EXCEPT ![proc[p].args.id] =
        SaveChanged(@, proc[p].order, [proc[p].order EXCEPT !.orderStatus = status])]

\* ----------------------------------------------------------- processOrder
\* line 174-179: getOrderById and the guards
ProcessOrder(p, args) ==
    /\ CanCall(p)
    /\ calls' = calls + 1
    /\ IF getOrderById(args.id) = {}
       THEN End(p, "processOrder", Thrown("Order not found"))
       ELSE IF orders[args.id].orderStatus = "cancelled"
       THEN End(p, "processOrder", Thrown("Cannot process a cancelled order"))
       ELSE Loaded(p, "processOrder", args)
    /\ UNCHANGED <<products, inventory, orders, activities>>

\* line 179-180: order.orderStatus = 'processing'; order.save()
ProcessOrderSave(p) ==
    /\ proc[p].op = "processOrder" /\ proc[p].pc = "saveOrder"
    /\ SaveStatus(p, "processing")
    /\ proc' = [proc EXCEPT ![p].pc = "logActivity"]
    /\ UNCHANGED <<products, inventory, activities, calls, last>>

\* ProcessOrderLog that reads the status off the instance, already set to
\* 'processing', instead of oldStatus
ProcessOrderLogNewAsOld(p) ==
    /\ proc[p].op = "processOrder" /\ proc[p].pc = "logActivity"
    /\ activities' = Append(activities,
            [accountId |-> proc[p].args.AccountId, orderId |-> proc[p].args.id,
             action |-> "processed",
             description |-> [from |-> "processing", to |-> "processing"]])
    /\ Finish(p, Void)
    /\ UNCHANGED <<products, inventory, orders, calls>>

\* line 183-191: logOrderActivity(..., 'processed', ...) and the return
ProcessOrderLog(p) ==
    /\ proc[p].op = "processOrder" /\ proc[p].pc = "logActivity"
    /\ activities' = Append(activities,
            [accountId |-> proc[p].args.AccountId, orderId |-> proc[p].args.id,
             action |-> "processed",
             description |-> [from |-> proc[p].order.orderStatus,
                              to |-> "processing"]])
    /\ Finish(p, Void)
    /\ UNCHANGED <<products, inventory, orders, calls>>

\* -------------------------------------------------------------- shipOrder
\* line 194-196
ShipOrder(p, args) ==
    /\ CanCall(p)
    /\ calls' = calls + 1
    /\ IF getOrderById(args.id) = {}
       THEN End(p, "shipOrder", Thrown("Order not found"))
       ELSE IF orders[args.id].orderStatus = "cancelled"
       THEN End(p, "shipOrder", Thrown("Cannot ship a cancelled order"))
       ELSE Loaded(p, "shipOrder", args)
    /\ UNCHANGED <<products, inventory, orders, activities>>

\* line 198-200
ShipOrderSave(p) ==
    /\ proc[p].op = "shipOrder" /\ proc[p].pc = "saveOrder"
    /\ SaveStatus(p, "shipped")
    /\ Finish(p, Void)
    /\ UNCHANGED <<products, inventory, activities, calls>>

\* ----------------------------------------------------------- deliverOrder
\* line 203-205
DeliverOrder(p, args) ==
    /\ CanCall(p)
    /\ calls' = calls + 1
    /\ IF getOrderById(args.id) = {}
       THEN End(p, "deliverOrder", Thrown("Order not found"))
       ELSE IF orders[args.id].orderStatus = "cancelled"
       THEN End(p, "deliverOrder", Thrown("Cannot deliver a cancelled order"))
       ELSE Loaded(p, "deliverOrder", args)
    /\ UNCHANGED <<products, inventory, orders, activities>>

\* DeliverOrderSave that writes shipOrder's status
DeliverOrderSaveAsShipped(p) ==
    /\ proc[p].op = "deliverOrder" /\ proc[p].pc = "saveOrder"
    /\ SaveStatus(p, "shipped")
    /\ Finish(p, Void)
    /\ UNCHANGED <<products, inventory, activities, calls>>

\* line 207-209
DeliverOrderSave(p) ==
    /\ proc[p].op = "deliverOrder" /\ proc[p].pc = "saveOrder"
    /\ SaveStatus(p, "delivered")
    /\ Finish(p, Void)
    /\ UNCHANGED <<products, inventory, activities, calls>>

\* ------------------------------------------------------------ cancelOrder
\* CancelOrder with the shipped/delivered guard of line 137-139 left out
CancelOrderNoShippedGuard(p, args) ==
    /\ CanCall(p)
    /\ calls' = calls + 1
    /\ IF getOrderById(args.id) = {}
       THEN End(p, "cancelOrder", Thrown("Order not found"))
       ELSE IF orders[args.id].orderStatus = "cancelled"
       THEN End(p, "cancelOrder", Thrown("Order is already cancelled"))
       ELSE Loaded(p, "cancelOrder", args)
    /\ UNCHANGED <<products, inventory, orders, activities>>

\* line 127-139
CancelOrder(p, args) ==
    /\ CanCall(p)
    /\ calls' = calls + 1
    /\ IF getOrderById(args.id) = {}
       THEN End(p, "cancelOrder", Thrown("Order not found"))
       ELSE IF orders[args.id].orderStatus = "cancelled"
       THEN End(p, "cancelOrder", Thrown("Order is already cancelled"))
       ELSE IF orders[args.id].orderStatus \in {"shipped", "delivered"}
       THEN End(p, "cancelOrder",
                Thrown("Cannot cancel order that has been shipped or delivered"))
       ELSE Loaded(p, "cancelOrder", args)
    /\ UNCHANGED <<products, inventory, orders, activities>>

\* line 140-143: order.orderStatus = 'cancelled'; order.save()
CancelOrderSave(p) ==
    /\ proc[p].op = "cancelOrder" /\ proc[p].pc = "saveOrder"
    /\ SaveStatus(p, "cancelled")
    /\ proc' = [proc EXCEPT ![p].pc = "logActivity"]
    /\ UNCHANGED <<products, inventory, activities, calls, last>>

\* line 145-152: logOrderActivity(..., 'cancelled', `... Previous status: ${oldStatus}`)
CancelOrderLog(p) ==
    /\ proc[p].op = "cancelOrder" /\ proc[p].pc = "logActivity"
    /\ activities' = Append(activities,
            [accountId |-> proc[p].args.AccountId, orderId |-> proc[p].args.id,
             action |-> "cancelled",
             description |-> [previous |-> proc[p].order.orderStatus]])
    /\ proc' = [proc EXCEPT ![p].pc = "findProduct"]
    /\ UNCHANGED <<products, inventory, orders, calls, last>>

\* line 155-156: db.Product.findByPk(order.productId); without a row, return the order
CancelOrderFindProduct(p) ==
    /\ proc[p].op = "cancelOrder" /\ proc[p].pc = "findProduct"
    /\ LET pid == proc[p].order.productId IN
       IF pid \in DOMAIN products
       THEN /\ proc' = [proc EXCEPT ![p] =
                  [op |-> "cancelOrder", pc |-> "saveProduct", args |-> proc[p].args,
                   order |-> proc[p].order,
                   product |-> [id |-> pid, row |-> products[pid]]]]
            /\ UNCHANGED last
       ELSE Finish(p, Returned(proc[p].args.id))
    /\ UNCHANGED <<products, inventory, orders, activities, calls>>

\* line 157-161: product.isAvailable = false; product.save(); return order
CancelOrderSaveProduct(p) ==
    /\ proc[p].op = "cancelOrder" /\ proc[p].pc = "saveProduct"
    /\ products' = [products EXCEPT ![proc[p].product.id] =
            SaveChanged(@, proc[p].product.row,
                        [proc[p].product.row EXCEPT !.isAvailable = FALSE])]
    /\ Finish(p, Returned(proc[p].args.id))
    /\ UNCHANGED <<inventory, orders, activities, calls>>

\* ------------------------------------------------------------ updateOrder
\* the field bags a caller passes as params
UpdateParams ==
    {<<>>}
    \cup [orderStatus : Statuses]
    \cup [shippingAddress : {"b"}]
    \cup [quantity : {MaxQty + 1}, totalAmount : {0}]

UpdateArgs == [id : OrderIds, AccountId : AccountIds, params : UpdateParams]

\* Object.assign(order, params)
Assign(order, params) ==
    [f \in DOMAIN order |-> IF f \in DOMAIN params THEN params[f] ELSE order[f]]

\* line 107-109
UpdateOrder(p, args) ==
    /\ CanCall(p)
    /\ calls' = calls + 1
    /\ IF args.id \notin DOMAIN orders
       THEN End(p, "updateOrder", Thrown("Order not found"))
       ELSE IF orders[args.id].orderStatus = "cancelled"
       THEN End(p, "updateOrder", Thrown("Cannot update a cancelled order"))
       ELSE Loaded(p, "updateOrder", args)
    /\ UNCHANGED <<products, inventory, orders, activities>>

\* line 111-113: Object.assign(order, params); order.save()
UpdateOrderSave(p) ==
    /\ proc[p].op = "updateOrder" /\ proc[p].pc = "saveOrder"
    /\ orders' = [orders EXCEPT ![proc[p].args.id] =
            SaveChanged(@, proc[p].order, Assign(proc[p].order, proc[p].args.params))]
    /\ proc' = [proc EXCEPT ![p].pc = "logActivity"]
    /\ UNCHANGED <<products, inventory, activities, calls, last>>

\* UpdateOrderLog that records an activity only when the status changed
UpdateOrderLogOnlyOnChange(p) ==
    /\ proc[p].op = "updateOrder" /\ proc[p].pc = "logActivity"
    /\ LET to == Assign(proc[p].order, proc[p].args.params).orderStatus IN
       IF to # proc[p].order.orderStatus
       THEN activities' = Append(activities,
                [accountId |-> proc[p].args.AccountId, orderId |-> proc[p].args.id,
                 action |-> "updated",
                 description |-> [from |-> proc[p].order.orderStatus, to |-> to]])
       ELSE UNCHANGED activities
    /\ Finish(p, Returned(proc[p].args.id))
    /\ UNCHANGED <<products, inventory, orders, calls>>

\* line 115-123: logOrderActivity(..., 'updated', from oldStatus to order.orderStatus)
UpdateOrderLog(p) ==
    /\ proc[p].op = "updateOrder" /\ proc[p].pc = "logActivity"
    /\ activities' = Append(activities,
            [accountId |-> proc[p].args.AccountId, orderId |-> proc[p].args.id,
             action |-> "updated",
             description |->
                 [from |-> proc[p].order.orderStatus,
                  to |-> Assign(proc[p].order, proc[p].args.params).orderStatus]])
    /\ Finish(p, Returned(proc[p].args.id))
    /\ UNCHANGED <<products, inventory, orders, calls>>

\* ---------------------------------------------------------------- queries
\* WhereCondition whose 'User' branch forgets the AccountId
WhereConditionAnyAccount(role, accountId, o) ==
    IF role = "User"
    THEN o.orderStatus # "cancelled"
    ELSE o.orderStatus \in {"pending", "processing", "shipped", "delivered"}

\* line 19-24: the where condition of getAllOrders, on one row
WhereCondition(role, accountId, o) ==
    IF role = "User"
    THEN o.AccountId = accountId /\ o.orderStatus # "cancelled"
    ELSE o.orderStatus \in {"pending", "processing", "shipped", "delivered"}

\* line 28: the attributes of a row that findAll returns
ListedRow(id) ==
    [id |-> id, totalAmount |-> orders[id].totalAmount,
     orderStatus |-> orders[id].orderStatus,
     shippingAddress |-> orders[id].shippingAddress,
     AccountId |-> orders[id].AccountId, quantity |-> orders[id].quantity]

RECURSIVE FindAllDesc(_, _, _)
\* line 26-40: the rows 1..n that match, newest (highest id) first
FindAllDesc(n, role, accountId) ==
    IF n = 0 THEN <<>>
    ELSE (IF WhereCondition(role, accountId, orders[n]) THEN <<ListedRow(n)>> ELSE <<>>)
         \o FindAllDesc(n - 1, role, accountId)

\* line 18-41
getAllOrders(role, accountId) == FindAllDesc(Len(orders), role, accountId)

GetAllOrdersArgs == [role : Roles, accountId : RequestAccountIds]

\* getAllOrders as an invocation: one awaited findAll, then the return
GetAllOrders(p, args) ==
    /\ CanCall(p)
    /\ calls' = calls + 1
    /\ End(p, "getAllOrders", Returned(getAllOrders(args.role, args.accountId)))
    /\ UNCHANGED <<products, inventory, orders, activities>>

\* trackOrderStatus that looks the order up by id alone
trackOrderStatusAnyAccount(id, accountId) ==
    IF id \in DOMAIN orders
    THEN Returned(orders[id].orderStatus)
    ELSE Thrown("Order not found or unauthorized access")

\* line 164-171: findOne({id, AccountId: accountId}), throw when there is no such row
trackOrderStatus(id, accountId) ==
    IF id \in DOMAIN orders /\ orders[id].AccountId = accountId
    THEN Returned(orders[id].orderStatus)
    ELSE Thrown("Order not found or unauthorized access")

TrackArgs == [id : OrderIds, accountId : RequestAccountIds]

\* trackOrderStatus as an invocation: one awaited findOne, then throw or return
TrackOrderStatus(p, args) ==
    /\ CanCall(p)
    /\ calls' = calls + 1
    /\ End(p, "trackOrderStatus", trackOrderStatus(args.id, args.accountId))
    /\ UNCHANGED <<products, inventory, orders, activities>>

\* ------------------------------------------------------------------- Init
InitProducts ==
    [ProductIds -> [productStatus : {"active", "inactive"}, isAvailable : {TRUE},
                    price : {10}]]

InitInventory ==
    UNION {[S -> 0 .. MaxQty] : S \in SUBSET ProductIds}

Init ==
    /\ products \in InitProducts
    /\ inventory \in InitInventory
    /\ orders = <<>>
    /\ activities = <<>>
    /\ proc = [p \in Procs |-> Idle]
    /\ calls = 0
    /\ last = [op |-> "none"]
    /\ pre = [products |-> products, inventory |-> inventory,
              orders |-> orders, activities |-> activities,
              call |-> [op |-> "none"]]

\* ------------------------------------------------------------------- Next
\* the invocations a caller can make
Calls ==
    [op : {"createOrder"}, args : CreateParams]
    \cup [op : {"processOrder", "shipOrder", "deliverOrder", "cancelOrder"},
          args : OrderArgs]
    \cup [op : {"updateOrder"}, args : UpdateArgs]

\* a caller invokes an operation on process p
Invoke(p, c) ==
    \/ c.op = "createOrder" /\ CreateOrder(p, c.args)
    \/ c.op = "processOrder" /\ ProcessOrder(p, c.args)
    \/ c.op = "shipOrder" /\ ShipOrder(p, c.args)
    \/ c.op = "deliverOrder" /\ DeliverOrder(p, c.args)
    \/ c.op = "cancelOrder" /\ CancelOrder(p, c.args)
    \/ c.op = "updateOrder" /\ UpdateOrder(p, c.args)

\* the read-only invocations; each is a single read and writes nothing
Queries ==
    [op : {"getAllOrders"}, args : GetAllOrdersArgs]
    \cup [op : {"trackOrderStatus"}, args : TrackArgs]

\* a caller invokes a query on process p
Query(p, c) ==
    \/ c.op = "getAllOrders" /\ GetAllOrders(p, c.args)
    \/ c.op = "trackOrderStatus" /\ TrackOrderStatus(p, c.args)

\* an invocation in flight runs to its next await
Step(p) ==
    \/ CreateOrderStep(p)
    \/ ProcessOrderSave(p) \/ ProcessOrderLog(p)
    \/ ShipOrderSave(p)
    \/ DeliverOrderSave(p)
    \/ CancelOrderSave(p) \/ CancelOrderLog(p)
    \/ CancelOrderFindProduct(p) \/ CancelOrderSaveProduct(p)
    \/ UpdateOrderSave(p) \/ UpdateOrderLog(p)

\* Concurrent invocations: any process may begin or continue at any time.
Next ==
    \E p \in Procs :
        /\ (\E c \in Calls : Invoke(p, c)) \/ Step(p)
        /\ UNCHANGED pre

Spec == Init /\ [][Next]_vars

\* Concurrent createOrder invocations only (the only writers of db.Inventory).
NextCreate ==
    \E p \in Procs :
        /\ \/ calls < MaxCreates /\ \E params \in CreateParams : CreateOrder(p, params)
           \/ CreateOrderStep(p)
        /\ UNCHANGED pre

SpecCreate == Init /\ [][NextCreate]_vars

\* One invocation at a time, the queries included; pre records the stores it starts
\* from and the call.
AllFree == \A p \in Procs : Free(p)

NextSeq ==
    \E p \in Procs :
        \/ /\ AllFree
           /\ \E c \in Calls :
                 /\ Invoke(p, c)
                 /\ pre' = [products |-> products, inventory |-> inventory,
                            orders |-> orders, activities |-> activities, call |-> c]
        \/ /\ AllFree
           /\ \E c \in Queries :
                 /\ Query(p, c)
                 /\ pre' = [products |-> products, inventory |-> inventory,
                            orders |-> orders, activities |-> activities, call |-> c]
        \/ Step(p) /\ UNCHANGED pre

SpecSeq == Init /\ [][NextSeq]_vars

\* One invocation at a time, and an awaited store call of createOrder may reject.
NextFail ==
    \/ NextSeq
    \/ \E p \in Procs : CreateOrderStoreFailure(p) /\ UNCHANGED pre

SpecFail == Init /\ [][NextFail]_vars

\* ================================================================ claims
RECURSIVE UnitsIn(_, _)
\* units ordered of product pid, over the rows of seq
UnitsIn(seq, pid) ==
    IF seq = <<>> THEN 0
    ELSE (IF Head(seq).productId = pid THEN Head(seq).quantity ELSE 0)
         + UnitsIn(Tail(seq), pid)

UnitsOrdered(pid) == UnitsIn(orders, pid)

\* C1: under any interleaving of concurrent createOrder invocations, the stored
\* Inventory.quantity of every product is >= 0 in every reachable state.
C1_QuantityNeverNegative ==
    \A pid \in DOMAIN inventory : inventory[pid] >= 0

\* Two createOrder invocations raced for the last unit: both read quantity 1, both
\* passed the stock check and both saved; the stock is 0, not -1.
C1_Witness ==
    /\ AllFree
    /\ Len(orders) = 2
    /\ \E pid \in DOMAIN inventory :
          /\ pre.inventory[pid] = 1
          /\ orders[1].productId = pid /\ orders[1].quantity = 1
          /\ orders[2].productId = pid /\ orders[2].quantity = 1
          /\ inventory[pid] = 0

\* C2: once all in-flight createOrder invocations have completed, a product's stored
\* quantity is its initial quantity minus the units of all orders created for it
\* (orders of a positive number of units, as the data model has them).
C2_NoDecrementLost ==
    (AllFree /\ \A i \in DOMAIN orders : orders[i].quantity >= 1) =>
        \A pid \in DOMAIN inventory :
            inventory[pid] = pre.inventory[pid] - UnitsOrdered(pid)

\* C3: when createOrder stops on a rejected store call, either the order is stored
\* and the inventory is decremented by its quantity, or neither happened.
C3_CreateAtomicOnFailure ==
    (/\ AllFree
     /\ pre.call.op = "createOrder"
     /\ ("quantity" \in DOMAIN pre.call.args => pre.call.args.quantity >= 1)
     /\ last.op = "createOrder"
     /\ last.result.kind = "thrown"
     /\ last.result.error = "store failure")
    =>
        \/ orders = pre.orders /\ inventory = pre.inventory
        \/ /\ Len(orders) = Len(pre.orders) + 1
           /\ LET o == orders[Len(orders)] IN
              inventory = [pre.inventory EXCEPT ![o.productId] = @ - o.quantity]

\* The invocation of op that ran in isolation from the stores pre has ended.
Ended(op) == AllFree /\ pre.call.op = op

\* the quantity a createOrder call asks for: the one provided, 1 when none is
AskedQuantity(args) ==
    IF "quantity" \in DOMAIN args THEN args.quantity ELSE 1

\* seq is old with exactly one row appended
OneAppended(seq, old) ==
    /\ Len(seq) = Len(old) + 1
    /\ SubSeq(seq, 1, Len(old)) = old

\* the createOrder call passes the validations that precede the stock check
PassesUpToStock(args) ==
    /\ args.AccountId \in AccountIds
    /\ args.productId \in DOMAIN pre.products
    /\ pre.products[args.productId].productStatus = "active"
    /\ args.productId \in DOMAIN pre.inventory

\* C4: for an existing account, an active product and inventory q, createOrder run
\* in isolation for k <= q units (1 when no quantity is provided) leaves the inventory
\* at q-k, adds exactly one order, pending, and appends exactly one 'created' activity
\* for that order.
C4_CreateDecrementsAndRecords ==
    (/\ Ended("createOrder")
     /\ PassesUpToStock(pre.call.args)
     /\ AskedQuantity(pre.call.args) # 0
     /\ AskedQuantity(pre.call.args) <= pre.inventory[pre.call.args.productId])
    =>
    LET a == pre.call.args
        k == AskedQuantity(a)
    IN  /\ last.result = Returned(Len(pre.orders) + 1)
        /\ inventory = [pre.inventory EXCEPT ![a.productId] = @ - k]
        /\ OneAppended(orders, pre.orders)
        /\ orders[Len(orders)].orderStatus = "pending"
        /\ orders[Len(orders)].quantity = k
        /\ orders[Len(orders)].productId = a.productId
        /\ orders[Len(orders)].AccountId = a.AccountId
        /\ OneAppended(activities, pre.activities)
        /\ activities[Len(activities)].action = "created"
        /\ activities[Len(activities)].orderId = Len(orders)
        /\ products = pre.products

\* createOrder for 2 of 2 units in stock has returned: the stock is 0
C4_Witness ==
    /\ Ended("createOrder")
    /\ PassesUpToStock(pre.call.args)
    /\ AskedQuantity(pre.call.args) = 2
    /\ pre.inventory[pre.call.args.productId] = 2
    /\ last.result.kind = "returned"
    /\ inventory[pre.call.args.productId] = 0

\* C5: createOrder for k units of a product with inventory q < k fails with
\* 'Insufficient stock' carrying available = q, and leaves the inventory, the order
\* store and the activity log unchanged.
C5_InsufficientStockNoEffect ==
    (/\ Ended("createOrder")
     /\ PassesUpToStock(pre.call.args)
     /\ AskedQuantity(pre.call.args) > pre.inventory[pre.call.args.productId])
    =>
        /\ last.op = "createOrder"
        /\ last.result = [kind |-> "thrown", error |-> "Insufficient stock",
                          available |-> pre.inventory[pre.call.args.productId]]
        /\ inventory = pre.inventory
        /\ orders = pre.orders
        /\ activities = pre.activities

\* createOrder for 2 units of a product with 1 in stock has thrown
C5_Witness ==
    /\ Ended("createOrder")
    /\ PassesUpToStock(pre.call.args)
    /\ AskedQuantity(pre.call.args) = 2
    /\ pre.inventory[pre.call.args.productId] = 1
    /\ last.result.kind = "thrown"

\* C6: createOrder against a product whose status is not 'active' fails with
\* 'Product is not available' and changes nothing in the order store, the inventory,
\* the product records and the activity log.
C6_InactiveProductNoEffect ==
    (/\ Ended("createOrder")
     /\ pre.call.args.AccountId \in AccountIds
     /\ pre.call.args.productId \in DOMAIN pre.products
     /\ pre.products[pre.call.args.productId].productStatus # "active")
    =>
        /\ last.op = "createOrder"
        /\ last.result = Thrown("Product is not available")
        /\ orders = pre.orders
        /\ inventory = pre.inventory
        /\ products = pre.products
        /\ activities = pre.activities

\* createOrder against an inactive product that has stock has thrown
C6_Witness ==
    /\ Ended("createOrder")
    /\ pre.call.args.AccountId \in AccountIds
    /\ pre.call.args.productId \in DOMAIN pre.products
    /\ pre.products[pre.call.args.productId].productStatus = "inactive"
    /\ pre.call.args.productId \in DOMAIN pre.inventory
    /\ AskedQuantity(pre.call.args) = 1
    /\ pre.inventory[pre.call.args.productId] >= 1
    /\ last.result.kind = "thrown"

\* the error of the earliest violated condition, in the order account exists,
\* product exists, product active, inventory record exists, quantity <= available
\* (the quantity being the one provided, or 1 when none or zero is)
FirstViolation(args) ==
    LET k == IF AskedQuantity(args) = 0 THEN 1 ELSE AskedQuantity(args) IN
    IF args.AccountId \notin AccountIds THEN "Account not found"
    ELSE IF args.productId \notin DOMAIN pre.products THEN "Product not found"
    ELSE IF pre.products[args.productId].productStatus # "active"
         THEN "Product is not available"
    ELSE IF args.productId \notin DOMAIN pre.inventory
         THEN "Inventory not found for this product"
    ELSE IF k > pre.inventory[args.productId] THEN "Insufficient stock"
    ELSE "none"

\* C7: createOrder reports the error of the earliest violated condition in the
\* order account, product, product active, inventory record, stock; it returns an
\* order when no condition is violated.
C7_FirstViolationWins ==
    Ended("createOrder") =>
        /\ last.op = "createOrder"
        /\ IF FirstViolation(pre.call.args) = "none"
           THEN last.result.kind = "returned"
           ELSE /\ last.result.kind = "thrown"
                /\ last.result.error = FirstViolation(pre.call.args)

\* createOrder for an unknown account and an unknown product has thrown
C7_Witness ==
    /\ Ended("createOrder")
    /\ pre.call.args.AccountId \notin AccountIds
    /\ pre.call.args.productId \notin DOMAIN pre.products
    /\ last.result.kind = "thrown"

\* the isolated call named the stored order o
CalledOn(op) ==
    /\ Ended(op)
    /\ pre.call.args.id \in DOMAIN pre.orders

\* status, before the isolated call, of the order it named
PriorStatus == pre.orders[pre.call.args.id].orderStatus

\* C8: cancelOrder on a pending or processing order sets its status to cancelled,
\* sets the product's isAvailable to false and appends one 'cancelled' activity; on a
\* shipped, delivered or cancelled order it fails and leaves the order, the product
\* and the activity log unchanged.
C8_CancelOrder ==
    CalledOn("cancelOrder") =>
        LET id == pre.call.args.id
            pid == pre.orders[id].productId
        IN  IF PriorStatus \in {"pending", "processing"}
            THEN /\ last.result = Returned(id)
                 /\ orders = [pre.orders EXCEPT ![id].orderStatus = "cancelled"]
                 /\ products = [pre.products EXCEPT ![pid].isAvailable = FALSE]
                 /\ OneAppended(activities, pre.activities)
                 /\ activities[Len(activities)].action = "cancelled"
                 /\ activities[Len(activities)].orderId = id
            ELSE /\ last.op = "cancelOrder"
                 /\ last.result.kind = "thrown"
                 /\ orders = pre.orders
                 /\ products = pre.products
                 /\ activities = pre.activities

\* cancelOrder on a processing order has returned
C8_Witness ==
    /\ CalledOn("cancelOrder")
    /\ PriorStatus = "processing"
    /\ orders[pre.call.args.id].orderStatus = "cancelled"
    /\ ~products[pre.orders[pre.call.args.id].productId].isAvailable

\* C9: once an order's stored status is cancelled, no later step of any operation,
\* under any interleaving, changes it.
C9_CancelledIsTerminal ==
    [][\A id \in DOMAIN orders :
          orders[id].orderStatus = "cancelled" => orders'[id].orderStatus = "cancelled"]_vars

\* C10 as claimed: on a shipped order processOrder and cancelOrder fail and leave
\* the status shipped, while deliverOrder succeeds and sets it to delivered.
C10_ShippedAsClaimed ==
    (/\ \/ CalledOn("processOrder") \/ CalledOn("cancelOrder") \/ CalledOn("deliverOrder")
     /\ PriorStatus = "shipped")
    =>
        LET now == orders[pre.call.args.id].orderStatus IN
        /\ pre.call.op = "processOrder" => last.result.kind = "thrown" /\ now = "shipped"
        /\ pre.call.op = "cancelOrder" => last.result.kind = "thrown" /\ now = "shipped"
        /\ pre.call.op = "deliverOrder" => last.result.kind = "returned" /\ now = "delivered"

\* C10 amended: on a shipped order cancelOrder fails and leaves the status shipped,
\* deliverOrder succeeds and sets it to delivered, and processOrder succeeds and sets
\* it to processing.
C10_Shipped ==
    (/\ \/ CalledOn("processOrder") \/ CalledOn("cancelOrder") \/ CalledOn("deliverOrder")
     /\ PriorStatus = "shipped")
    =>
        LET now == orders[pre.call.args.id].orderStatus IN
        /\ pre.call.op = "processOrder" => last.result.kind = "returned" /\ now = "processing"
        /\ pre.call.op = "cancelOrder" => last.result.kind = "thrown" /\ now = "shipped"
        /\ pre.call.op = "deliverOrder" => last.result.kind = "returned" /\ now = "delivered"

\* processOrder on a shipped order has returned
C10_Witness ==
    /\ CalledOn("processOrder")
    /\ PriorStatus = "shipped"
    /\ last.op = "processOrder"
    /\ last.result.kind = "returned"

\* C11: whenever an order's stored status changes to cancelled, its stored status
\* immediately before the change was pending or processing.
C11_CancelledOnlyFromPendingOrProcessing ==
    [][\A id \in DOMAIN orders :
          (orders[id].orderStatus # "cancelled" /\ orders'[id].orderStatus = "cancelled")
          => orders[id].orderStatus \in {"pending", "processing"}]_vars

\* C12: once an order's stored status is delivered, no subsequent operation changes it.
C12_DeliveredIsTerminal ==
    [][\A id \in DOMAIN orders :
          orders[id].orderStatus = "delivered" => orders'[id].orderStatus = "delivered"]_vars

\* C13: createOrder stores totalAmount = unit price x quantity, and no later step of
\* any operation changes the productId, quantity or totalAmount of a stored order
\* (an order of a positive number of units, as the data model has them).
C13_CreationFieldsFixed ==
    [][/\ \A id \in {i \in DOMAIN orders : orders[i].quantity >= 1} :
             /\ orders'[id].productId = orders[id].productId
             /\ orders'[id].quantity = orders[id].quantity
             /\ orders'[id].totalAmount = orders[id].totalAmount
       /\ \A id \in DOMAIN orders' \ DOMAIN orders :
             orders'[id].totalAmount =
                 products[orders'[id].productId].price * orders'[id].quantity]_vars

\* C14: for any requested quantity (0, negative or none included) an order that
\* createOrder has created has quantity >= 1, and createOrder does not increase the
\* inventory.
C14_QuantityPositive ==
    /\ \A id \in DOMAIN orders : orders[id].quantity >= 1
    /\ Ended("createOrder") =>
          \A pid \in DOMAIN inventory : inventory[pid] <= pre.inventory[pid]

\* C20: for every order the 'created' activity is the first one recorded for it: no
\* activity of an order is in the log before that order's 'created' activity.
C20_CreatedIsFirstActivity ==
    \A i \in DOMAIN activities :
        activities[i].action # "created" =>
            \E j \in 1 .. (i - 1) :
                /\ activities[j].orderId = activities[i].orderId
                /\ activities[j].action = "created"

\* the stores are as they were when the isolated invocation started
StoresUnchanged ==
    /\ products = pre.products
    /\ inventory = pre.inventory
    /\ orders = pre.orders
    /\ activities = pre.activities

\* C15: getAllOrders('User', A) returns only orders whose AccountId is A and whose
\* status is not cancelled; with any other role it returns no cancelled order and it
\* returns the orders of all accounts that are pending, processing, shipped or
\* delivered.
C15_ListingVisibility ==
    Ended("getAllOrders") =>
        LET a == pre.call.args
            rows == last.result.value
        IN  /\ \A i \in DOMAIN rows :
                  /\ rows[i].id \in DOMAIN orders
                  /\ rows[i].AccountId = orders[rows[i].id].AccountId
                  /\ rows[i].orderStatus = orders[rows[i].id].orderStatus
                  /\ rows[i].orderStatus # "cancelled"
                  /\ a.role = "User" => rows[i].AccountId = a.accountId
            /\ a.role # "User" =>
                  \A id \in DOMAIN orders :
                      orders[id].orderStatus
                          \in {"pending", "processing", "shipped", "delivered"}
                      => \E i \in DOMAIN rows : rows[i].id = id

\* the owner of a cancelled order has listed as 'User': the order is stored and is
\* not in the result
C15_Witness ==
    /\ Ended("getAllOrders")
    /\ pre.call.args.role = "User"
    /\ \E id \in DOMAIN orders :
          /\ orders[id].orderStatus = "cancelled"
          /\ orders[id].AccountId = pre.call.args.accountId
    /\ last.result.value = <<>>

\* C16: trackOrderStatus(id, accountId) returns the order's current status, whatever
\* it is, when the order's AccountId is accountId, fails with the not-found-or-
\* unauthorized error when the order does not exist or belongs to another account,
\* and changes no state.  (The function has no role argument.)
C16_TrackOrderStatus ==
    Ended("trackOrderStatus") =>
        LET a == pre.call.args IN
        /\ last.op = "trackOrderStatus"
        /\ IF a.id \in DOMAIN pre.orders /\ pre.orders[a.id].AccountId = a.accountId
           THEN last.result = Returned(pre.orders[a.id].orderStatus)
           ELSE last.result = Thrown("Order not found or unauthorized access")
        /\ StoresUnchanged

\* trackOrderStatus on a stored order by a caller who does not own it has thrown
C16_Witness ==
    /\ Ended("trackOrderStatus")
    /\ pre.call.args.id \in DOMAIN pre.orders
    /\ pre.orders[pre.call.args.id].AccountId # pre.call.args.accountId
    /\ last.result.kind = "thrown"

\* the prior and the new status that the description of an activity states; the text
\* of a 'cancelled' activity is "Cancelled order. Previous status: <prior>"
StatedPrior(a) ==
    IF a.action = "cancelled" THEN a.description.previous ELSE a.description.from

StatedNew(a) ==
    IF a.action = "cancelled" THEN "cancelled" ELSE a.description.to

\* C17: a successful processOrder, cancelOrder or updateOrder appends exactly one
\* activity for that order whose description states the prior and the new status; a
\* successful shipOrder or deliverOrder leaves the activity log unchanged.
C17_ActivityPerActorTransition ==
    /\ (/\ \/ CalledOn("processOrder") \/ CalledOn("cancelOrder") \/ CalledOn("updateOrder")
        /\ last.result.kind = "returned")
       =>
          /\ OneAppended(activities, pre.activities)
          /\ LET a == activities[Len(activities)] IN
             /\ a.orderId = pre.call.args.id
             /\ a.action = (CASE pre.call.op = "processOrder" -> "processed"
                              [] pre.call.op = "cancelOrder" -> "cancelled"
                              [] pre.call.op = "updateOrder" -> "updated")
             /\ StatedPrior(a) = PriorStatus
             /\ StatedNew(a) = orders[pre.call.args.id].orderStatus
    /\ (/\ CalledOn("shipOrder") \/ CalledOn("deliverOrder")
        /\ last.result.kind = "returned")
       => activities = pre.activities

\* processOrder on a shipped order has returned: one 'processed' activity more
C17_Witness ==
    /\ CalledOn("processOrder")
    /\ PriorStatus = "shipped"
    /\ last.result.kind = "returned"
    /\ Len(activities) = Len(pre.activities) + 1
    /\ activities[Len(activities)].description.from = "shipped"

\* C18: updateOrder on an existing order that is not cancelled overwrites exactly the
\* fields present in params, keeps the others, and appends exactly one 'updated'
\* activity, also when the status is unchanged; on a missing or cancelled order it
\* fails and leaves the order store and the activity log unchanged.
C18_UpdateOrder ==
    Ended("updateOrder") =>
        LET id == pre.call.args.id
            params == pre.call.args.params
        IN  IF id \in DOMAIN pre.orders /\ pre.orders[id].orderStatus # "cancelled"
            THEN /\ last.result = Returned(id)
                 /\ Len(orders) = Len(pre.orders)
                 /\ \A j \in DOMAIN orders : j # id => orders[j] = pre.orders[j]
                 /\ DOMAIN orders[id] = DOMAIN pre.orders[id]
                 /\ \A f \in DOMAIN orders[id] :
                       orders[id][f] = IF f \in DOMAIN params THEN params[f]
                                       ELSE pre.orders[id][f]
                 /\ OneAppended(activities, pre.activities)
                 /\ activities[Len(activities)].action = "updated"
                 /\ activities[Len(activities)].orderId = id
            ELSE /\ last.op = "updateOrder"
                 /\ last.result.kind = "thrown"
                 /\ orders = pre.orders
                 /\ activities = pre.activities

\* updateOrder with only a shipping address has returned: the address is the new one,
\* the status is the old one, and one 'updated' activity is recorded
C18_Witness ==
    /\ Ended("updateOrder")
    /\ pre.call.args.id \in DOMAIN pre.orders
    /\ DOMAIN pre.call.args.params = {"shippingAddress"}
    /\ last.result.kind = "returned"
    /\ orders[pre.call.args.id].shippingAddress = "b"
    /\ orders[pre.call.args.id].orderStatus = PriorStatus
    /\ Len(activities) = Len(pre.activities) + 1

\* C19: a successful cancelOrder leaves the inventory and every productStatus
\* unchanged, and createOrder against a product whose isAvailable is false but whose
\* status is 'active' is accepted as for any active product.
C19_CancelKeepsStock ==
    /\ (CalledOn("cancelOrder") /\ last.result.kind = "returned") =>
          /\ inventory = pre.inventory
          /\ \A pid \in DOMAIN products :
                products[pid].productStatus = pre.products[pid].productStatus
    /\ (/\ Ended("createOrder")
        /\ PassesUpToStock(pre.call.args)
        /\ ~pre.products[pre.call.args.productId].isAvailable
        /\ AskedQuantity(pre.call.args) # 0
        /\ AskedQuantity(pre.call.args) <= pre.inventory[pre.call.args.productId])
       => last.result.kind = "returned"

\* of 2 units in stock, one went to an order that was then cancelled; the stock stayed
\* at 1, the product is unavailable, and createOrder for the remaining unit returned
C19_Witness ==
    /\ Ended("createOrder")
    /\ Len(orders) = 2
    /\ orders[1].orderStatus = "cancelled" /\ orders[1].quantity = 1
    /\ orders[2].productId = orders[1].productId /\ orders[2].quantity = 1
    /\ ~pre.products[orders[1].productId].isAvailable
    /\ pre.inventory[orders[1].productId] = 1
    /\ inventory[orders[1].productId] = 0
    /\ last.result.kind = "returned"

====
